---- MODULE Spec2Model ----
(***************************************************************************)
(* Dependency analysis and calculation-order scheduling of cashflower.     *)
(*                                                                         *)
(*   Spec      resolve_calculation_order (src/cashflower/start.py)         *)
(*   SpecWide  the same on models of one more Dependency                   *)
(*   SpecTutorial  the same on the models of Spec and the term-life     *)
(*             tutorial model                                              *)
(*   SpecTwice the same, followed by a second run on the annotated         *)
(*             variables                                                   *)
(*   SpecArg   get_arg / binop_to_arg (src/cashflower/graph.py)            *)
(*   SpecIf    ifs_to_subset / if_to_subset (src/cashflower/graph.py)      *)
(*   SpecEdges add_edges_from_dependency (src/cashflower/graph.py)         *)
(***************************************************************************)
EXTENDS Integers, Sequences, FiniteSets, TLC

(***************************************************************************)
(* Bounds of the model.                                                    *)
(***************************************************************************)
\* largest number of Dependency records of one model (SpecWide: one more)
MaxDeps == 3
\* iterations of the main while loop that are followed
MaxIters == 5
\* largest number of arguments of an inspected call
MaxArgs == 2
\* the setting T_MAX_CALCULATION of the inspected model
T_MAX_CALCULATION == 2
\* largest number of ast.If nodes enclosing an inspected call
MaxIfs == 2

(***************************************************************************)
(* The model's variables (names; inspect.getmembers lists them by name).   *)
(***************************************************************************)
Names == {"a", "b", "c"}

NameRank == [n \in Names |-> CASE n = "a" -> 1 [] n = "b" -> 2 [] n = "c" -> 3]

\* the list get_variables returns: the members in name order
variables == [i \in 1..Cardinality(Names) |-> CHOOSE n \in Names : NameRank[n] = i]

\* argument kinds of the calls the scheduler is run on
ArgKinds == {"t", "t-1", "t+1"}

\* Dependency(func, call, arg): func calls call with argument arg
Dependency == [func : Names, call : Names, arg : ArgKinds]

RECURSIVE SubsetsUpTo(_, _)
SubsetsUpTo(S, k) ==
    IF k = 0 THEN {{}}
    ELSE LET smaller == SubsetsUpTo(S, k - 1)
         IN  smaller \cup {s \cup {x} : s \in smaller, x \in S}

VARIABLES
    deps,          \* the Dependency records of the model (the formulas' calls)
    arrays,        \* the names of the ArrayVariable instances
    dg,            \* the whole-model graph: [nodes, edges]
    calc_order,    \* the counter of step [4]
    V,             \* per variable: calc_order, cycle_order, cycle, calc_direction
    pc,            \* position in resolve_calculation_order
    pending,       \* cycles_without_predecessors still to be visited by the for loop
    cycle,         \* the cycle the for loop is at
    dg_cycle,      \* the cycle-local graph
    cycle_order,   \* the counter of step [4b_2]
    together,      \* per variable: the members of the cycle it was resolved with
    removed_at,    \* per variable: the while-loop iteration that removed it from dg
    iters,         \* iterations of the main while loop started so far
    error,         \* the CashflowModelError raised, or NoError
    result,        \* the list returned
    run,           \* 1 for the first run, 2 for a second run on the same variables
    first,         \* the annotations and the list of the first run
    node,          \* get_arg: the ast.Call node inspected
    arg,           \* get_arg: what it returned or raised
    ifs,           \* ifs_to_subset: the enclosing ast.If nodes, innermost first
    subset,        \* ifs_to_subset: what it returned or raised
    dependency,    \* add_edges_from_dependency: the Dependency expanded
    DG             \* add_edges_from_dependency: the (variable, period) graph

schedVars == <<deps, arrays, dg, calc_order, V, pc, pending, cycle, dg_cycle,
               cycle_order, together, removed_at, iters, error, result, run, first>>

schedVars_but_pc == <<deps, arrays, dg, calc_order, V, pending, cycle, dg_cycle,
                      cycle_order, together, removed_at, iters, error, result, run, first>>

inspVars == <<node, arg, ifs, subset, dependency, DG>>

vars == <<schedVars, inspVars>>

NoError == [kind |-> "none", names |-> <<>>]

(***************************************************************************)
(* Graph helpers (networkx.DiGraph as used by the scheduler).              *)
(***************************************************************************)
\* get_calls(variable, variables, argument_t_only)
get_calls(variable, among, argument_t_only) ==
    {d.call : d \in {e \in deps : /\ e.func = variable
                                  /\ e.call \in among
                                  /\ (argument_t_only => e.arg = "t")}}

\* create_directed_graph(variables, calls): an edge callee -> caller
create_directed_graph(nodes, argument_t_only) ==
    [nodes |-> nodes,
     edges |-> {<<p, v>> \in nodes \X nodes : p \in get_calls(v, nodes, argument_t_only)}]

\* dg.predecessors(n)
predecessors(g, n) == {p \in g.nodes : <<p, n>> \in g.edges}

\* dg.remove_nodes_from(ns)
remove_nodes_from(g, ns) ==
    [nodes |-> g.nodes \ ns,
     edges |-> {e \in g.edges : e[1] \notin ns /\ e[2] \notin ns}]

RECURSIVE Closure(_, _)
Closure(g, visited) ==
    LET more == visited \cup UNION {predecessors(g, n) : n \in visited}
    IN  IF more = visited THEN visited ELSE Closure(g, more)

\* get_predecessors(node, dg): the node and everything it can be reached from
get_predecessors(n, g) == Closure(g, {n})

\* the elements of a list, as a set
Range(s) == {s[i] : i \in 1..Len(s)}

\* every simple cycle of g once, written from its least-named member
SimpleCycles(g) ==
    {c \in UNION {[1..k -> g.nodes] : k \in 1..Cardinality(g.nodes)} :
        /\ \A i, j \in 1..Len(c) : i # j => c[i] # c[j]
        /\ \A i \in 1..Len(c) : <<c[i], c[(i % Len(c)) + 1]>> \in g.edges
        /\ \A i \in 1..Len(c) : NameRank[c[1]] <= NameRank[c[i]]}

\* the same cycle written from each of its members
Rotations(c) ==
    {[i \in 1..Len(c) |-> c[((i + k - 1) % Len(c)) + 1]] : k \in 0..(Len(c) - 1)}

\* nx.simple_cycles(dg) as a list: each cycle once, from any member, in any order
RECURSIVE Listings(_)
Listings(S) ==
    IF S = {} THEN {<<>>}
    ELSE UNION {{<<r>> \o rest : r \in Rotations(c), rest \in Listings(S \ {c})} : c \in S}

simple_cycles(g) == Listings(SimpleCycles(g))

(***************************************************************************)
(* resolve_calculation_order                                               *)
(***************************************************************************)
\* index of n in a list holding it
IndexOf(list, n) == CHOOSE i \in 1..Len(list) : list[i] = n

\* "for node in list: counter += 1; node.<rank> = counter": the rank n gets
RankSharedByAll(list, counter, n) == counter + 1
RankInLoop(list, counter, n) == counter + IndexOf(list, n)

\* "calc_order += 1; for node in cycle: node.calc_order = calc_order": the rank n gets
RankPerMember(list, counter, n) == counter + IndexOf(list, n)
RankOfCycle(list, counter, n) == counter + 1

\* list(g.nodes), and
\* [n for n in g.nodes if len(list(g.predecessors(n))) == 0], in the order of g.nodes
nodes_of(g, order) == SelectSeq(order, LAMBDA n : n \in g.nodes)
EveryNodeStripped(g, order) == nodes_of(g, order)
NodesIgnoringSelfLoops(g, order) ==
    SelectSeq(order, LAMBDA n : n \in g.nodes /\ predecessors(g, n) \ {n} = {})
nodes_without_predecessors(g, order) ==
    SelectSeq(order, LAMBDA n : n \in g.nodes /\ predecessors(g, n) = {})

\* [c for c in cycles if len(get_predecessors(c[0], dg)) == len(c)]
AllCyclesEligible(cycles, g) == cycles
cycles_without_predecessors(cycles, g) ==
    SelectSeq(cycles, LAMBDA c : Cardinality(get_predecessors(c[1], g)) = Len(c))

\* the members of a cycle that are ArrayVariable instances, in the cycle's order
NoArrayCheck(c) == <<>>
array_variables_in(c) == SelectSeq(c, LAMBDA v : v \in arrays)

\* whether the inner while loop has come to a graph it cannot strip
cycle_is_stuck(g, order) ==
    g.nodes # {} /\ Len(nodes_without_predecessors(g, order)) = 0

\* the key of step [5]: (calc_order, cycle_order, name)
SortsBefore(W, u, v) ==
    \/ W[u].calc_order < W[v].calc_order
    \/ /\ W[u].calc_order = W[v].calc_order
       /\ \/ W[u].cycle_order < W[v].cycle_order
          \/ /\ W[u].cycle_order = W[v].cycle_order
             /\ NameRank[u] < NameRank[v]

\* sorted(variables, key=lambda x: (x.calc_order, x.cycle_order, x.name))
sorted(W) ==
    [i \in 1..Cardinality(Names) |->
        CHOOSE v \in Names : Cardinality({u \in Names : SortsBefore(W, u, v)}) = i - 1]

\* set_calc_direction: per calc_order group, backward when the calls to the next
\* period among the group outnumber the calls to the previous period
set_calc_direction(W) ==
    [v \in Names |->
        LET group == {u \in Names : W[u].calc_order = W[v].calc_order}
            calls(kind) == {d \in deps : d.func \in group /\ d.call \in group /\ d.arg = kind}
        IN  [W[v] EXCEPT !.calc_direction =
                IF Cardinality(calls("t+1")) > Cardinality(calls("t-1"))
                THEN "backward" ELSE "forward"]]

NoGraph == [nodes |-> {}, edges |-> {}]

\* the attributes a Variable is created with
NewVariable == [calc_order |-> 0, cycle_order |-> 0, cycle |-> FALSE, calc_direction |-> "unset"]

InitInspector ==
    /\ node = <<>>
    /\ arg = "unset"
    /\ ifs = <<>>
    /\ subset = "unset"
    /\ dependency = "unset"
    /\ DG = NoGraph

\* steps [1]-[3] with OUTPUT_COLUMNS empty: the graph of all variables
InitModel(models) ==
    /\ deps \in models
    /\ arrays \in SUBSET Names
    /\ dg = create_directed_graph(Names, FALSE)
    /\ calc_order = 0
    /\ V = [v \in Names |-> NewVariable]
    /\ pc = "while"
    /\ pending = <<>>
    /\ cycle = <<>>
    /\ dg_cycle = NoGraph
    /\ cycle_order = 0
    /\ together = [v \in Names |-> {}]
    /\ removed_at = [v \in Names |-> 0]
    /\ iters = 0
    /\ error = NoError
    /\ result = <<>>
    /\ run = 1
    /\ first = [V |-> V, result |-> <<>>]
    /\ InitInspector

Init == InitModel(SubsetsUpTo(Dependency, MaxDeps))

InitWide == InitModel(SubsetsUpTo(Dependency, MaxDeps + 1))

\* the variables of the term-life tutorial, by their rank in name order:
\* expected_benefit < net_single_premium < survival_rate
expected_benefit == "a"
net_single_premium == "b"
survival_rate == "c"

\* the calls of the tutorial's formulas: survival_rate(t-1) in survival_rate and in
\* expected_benefit, expected_benefit(t) and net_single_premium(t+1) in
\* net_single_premium
TermLife ==
    { [func |-> survival_rate, call |-> survival_rate, arg |-> "t-1"],
      [func |-> expected_benefit, call |-> survival_rate, arg |-> "t-1"],
      [func |-> net_single_premium, call |-> expected_benefit, arg |-> "t"],
      [func |-> net_single_premium, call |-> net_single_premium, arg |-> "t+1"] }

InitTutorial == InitModel(SubsetsUpTo(Dependency, MaxDeps) \cup {TermLife})

\* "for cycle in cycles_without_predecessors": on to the next cycle, or back to
\* the while loop when none is left
AfterCycle(left) == IF left = <<>> THEN "while" ELSE "for"

\* [4a] there are variables without any predecessors
StripNodes ==
    /\ pc = "while"
    /\ dg.nodes # {}
    /\ iters < MaxIters
    /\ LET stripped == nodes_without_predecessors(dg, variables)
       IN  /\ Len(stripped) > 0
           /\ V' = [v \in Names |->
                      IF v \in Range(stripped)
                      THEN [V[v] EXCEPT !.calc_order = RankInLoop(stripped, calc_order, v)]
                      ELSE V[v]]
           /\ calc_order' = calc_order + Len(stripped)
           /\ dg' = remove_nodes_from(dg, Range(stripped))
           /\ removed_at' = [v \in Names |->
                               IF v \in Range(stripped) THEN iters + 1 ELSE removed_at[v]]
    /\ iters' = iters + 1
    /\ UNCHANGED <<deps, arrays, pc, pending, cycle, dg_cycle, cycle_order, together,
                   error, result, run, first, inspVars>>

\* [4b] no variable is without predecessors: list the cycles to resolve
FindCycles ==
    /\ pc = "while"
    /\ dg.nodes # {}
    /\ iters < MaxIters
    /\ Len(nodes_without_predecessors(dg, variables)) = 0
    /\ \E cycles \in simple_cycles(dg) :
          pending' = cycles_without_predecessors(cycles, dg)
    /\ pc' = AfterCycle(pending')
    /\ iters' = iters + 1
    /\ UNCHANGED <<deps, arrays, dg, calc_order, V, cycle, dg_cycle, cycle_order,
                   together, removed_at, error, result, run, first, inspVars>>

\* [4b_1] and the head of [4b_2]: the next cycle, its array check, its local graph
NextCycle ==
    /\ pc = "for"
    /\ pending # <<>>
    /\ cycle' = Head(pending)
    /\ pending' = Tail(pending)
    /\ LET found == array_variables_in(Head(pending))
       IN  IF Len(found) > 0
           THEN /\ error' = [kind |-> "InvalidCycle", names |-> <<found[1]>>]
                /\ pc' = "raised"
                /\ UNCHANGED <<dg_cycle, cycle_order>>
           ELSE /\ dg_cycle' = create_directed_graph(Range(Head(pending)), TRUE)
                /\ cycle_order' = 0
                /\ pc' = "cycle_while"
                /\ UNCHANGED error
    /\ UNCHANGED <<deps, arrays, dg, calc_order, V, together, removed_at, iters, result, run, first,
                   inspVars>>

\* [4b_2] strip the cycle-local graph, setting cycle_order
StripCycleNodes ==
    /\ pc = "cycle_while"
    /\ dg_cycle.nodes # {}
    /\ ~cycle_is_stuck(dg_cycle, cycle)
    /\ LET stripped == nodes_without_predecessors(dg_cycle, cycle)
       IN  /\ V' = [v \in Names |->
                      IF v \in Range(stripped)
                      THEN [V[v] EXCEPT !.cycle_order = RankInLoop(stripped, cycle_order, v)]
                      ELSE V[v]]
           /\ cycle_order' = cycle_order + Len(stripped)
           /\ dg_cycle' = remove_nodes_from(dg_cycle, Range(stripped))
    /\ UNCHANGED <<deps, arrays, dg, calc_order, pc, pending, cycle, together, removed_at, iters,
                   error, result, run, first, inspVars>>

\* [4b_2] circular relationship without time step difference
RaiseCircular ==
    /\ pc = "cycle_while"
    /\ cycle_is_stuck(dg_cycle, cycle)
    /\ error' = [kind |-> "UnresolvableCycle", names |-> nodes_of(dg_cycle, cycle)]
    /\ pc' = "raised"
    /\ UNCHANGED <<deps, arrays, dg, calc_order, V, pending, cycle, dg_cycle, cycle_order,
                   together, removed_at, iters, result, run, first, inspVars>>

\* [4b_3] all the variables from a cycle have the same calc_order value
CloseCycle ==
    /\ pc = "cycle_while"
    /\ dg_cycle.nodes = {}
    /\ calc_order' = calc_order + 1
    /\ V' = [v \in Names |->
               IF v \in Range(cycle)
               THEN [V[v] EXCEPT !.calc_order = RankOfCycle(cycle, calc_order, v),
                                 !.cycle = TRUE]
               ELSE V[v]]
    /\ together' = [v \in Names |-> IF v \in Range(cycle) THEN Range(cycle) ELSE together[v]]
    /\ removed_at' = [v \in Names |->
                        IF v \in Range(cycle) /\ v \in dg.nodes THEN iters ELSE removed_at[v]]
    /\ dg' = remove_nodes_from(dg, Range(cycle))
    /\ pc' = AfterCycle(pending)
    /\ UNCHANGED <<deps, arrays, pending, cycle, dg_cycle, cycle_order, iters, error,
                   result, run, first, inspVars>>

\* [5], [6] and the return
Return ==
    /\ pc = "while"
    /\ dg.nodes = {}
    /\ V' = set_calc_direction(V)
    /\ result' = sorted(V)
    /\ pc' = "returned"
    /\ UNCHANGED <<deps, arrays, dg, calc_order, pending, cycle, dg_cycle, cycle_order,
                   together, removed_at, iters, error, run, first, inspVars>>

Next ==
    \/ StripNodes
    \/ FindCycles
    \/ NextCycle
    \/ StripCycleNodes
    \/ RaiseCircular
    \/ CloseCycle
    \/ Return

Spec == Init /\ [][Next]_vars

SpecWide == InitWide /\ [][Next]_vars

SpecTutorial == InitTutorial /\ [][Next]_vars

\* a second call of resolve_calculation_order on the variables the first one annotated
SecondRun ==
    /\ pc = "returned"
    /\ run = 1
    /\ first' = [V |-> V, result |-> result]
    /\ run' = 2
    /\ dg' = create_directed_graph(Names, FALSE)
    /\ calc_order' = 0
    /\ iters' = 0
    /\ result' = <<>>
    /\ pc' = "while"
    /\ together' = [v \in Names |-> {}]
    /\ removed_at' = [v \in Names |-> 0]
    /\ UNCHANGED <<deps, arrays, V, pending, cycle, dg_cycle, cycle_order, error, inspVars>>

NextTwice == Next \/ SecondRun

SpecTwice == Init /\ [][NextTwice]_vars

(***************************************************************************)
(* Properties of resolve_calculation_order                                 *)
(***************************************************************************)
\* the whole-model graph the run started from
WholeGraph == create_directed_graph(Names, FALSE)

\* v lies on a cycle of the whole-model graph
InCycle(v) == \E c \in SimpleCycles(WholeGraph) : v \in Range(c)

\* caller and callee were resolved as members of one cycle
ResolvedTogether(u, v) == v \in together[u]

SameT == {d \in deps : d.arg = "t"}

\* C1: after a successful return, a callee called with argument t by a caller it
\* was not resolved in one cycle with has a smaller calc_order than the caller.
C1_CalleeBeforeCaller ==
    pc = "returned" =>
        \A d \in SameT :
            ~ResolvedTogether(d.func, d.call) =>
                V[d.call].calc_order < V[d.func].calc_order

\* C1 witness: a returned run with a same-period call across groups and a
\* resolved cycle elsewhere in the graph.
C1_Witness ==
    /\ pc = "returned"
    /\ \E d \in SameT :
          /\ ~ResolvedTogether(d.func, d.call)
          /\ V[d.call].calc_order < V[d.func].calc_order
          /\ \E v \in Names \ {d.func, d.call} : V[v].cycle

\* C2: the main loop ends within |variables| iterations.
C2_LoopEndsWithinVariables == iters <= Cardinality(Names)

\* C3: on return the members of a resolved cycle share one calc_order, carry the
\* cycle flag, and a member called with argument t by another member has the
\* smaller cycle_order.
C3_CycleMembersOrdered ==
    pc = "returned" =>
        \A v \in Names : \A u \in together[v] :
            /\ V[u].calc_order = V[v].calc_order
            /\ V[u].cycle
            /\ \A d \in SameT :
                  (d.func = v /\ d.call = u) =>
                      V[u].cycle_order < V[v].cycle_order

\* C3 witness: a returned run with a cycle of several members, one calling
\* another with argument t.
C3_Witness ==
    /\ pc = "returned"
    /\ \E d \in SameT :
          /\ d.func # d.call
          /\ ResolvedTogether(d.func, d.call)
          /\ V[d.call].cycle_order < V[d.func].cycle_order

\* u and v were stripped as zero-predecessor nodes by one iteration of the loop
StrippedTogether(u, v) ==
    /\ u # v
    /\ removed_at[u] > 0
    /\ removed_at[u] = removed_at[v]
    /\ together[u] = {}
    /\ together[v] = {}

Ended == pc \in {"returned", "raised"}

\* some variable calls itself with argument t
SelfCallsT == {d \in SameT : d.func = d.call}

\* the cycle-local graph is non-empty and each of its nodes has a predecessor
CycleLocalCircular ==
    /\ pc = "cycle_while"
    /\ dg_cycle.nodes # {}
    /\ \A n \in dg_cycle.nodes : \E p \in dg_cycle.nodes : <<p, n>> \in dg_cycle.edges

\* C5 as stated: a model in which a variable calls itself with argument t always
\* ends with the unresolvable-cycle error.
C5_SelfCallAlwaysUnresolvable ==
    (Ended /\ SelfCallsT # {}) => error.kind = "UnresolvableCycle"

\* C5 as amended: a circular cycle-local graph can only raise the
\* unresolvable-cycle error, which names the nodes left in that graph and returns
\* no list; a model in which a variable calls itself with argument t never
\* returns a list, and the error it ends with is the unresolvable-cycle error
\* unless the array check of a cycle raised first.
C5_CircularCycleRaises ==
    /\ CycleLocalCircular =>
          /\ ENABLED RaiseCircular
          /\ ~ENABLED StripCycleNodes
          /\ ~ENABLED CloseCycle
    /\ error.kind = "UnresolvableCycle" =>
          /\ pc = "raised"
          /\ error.names = nodes_of(dg_cycle, cycle)
          /\ error.names # <<>>
          /\ result = <<>>
    /\ SelfCallsT # {} =>
          /\ pc # "returned"
          /\ (pc = "raised" /\ error.kind # "UnresolvableCycle") =>
                (error.kind = "InvalidCycle" /\ Range(cycle) \cap arrays # {})

\* C5 witness: a variable calling itself with argument t has made the run end
\* with the unresolvable-cycle error naming it.
C5_Witness ==
    /\ pc = "raised"
    /\ error.kind = "UnresolvableCycle"
    /\ \E d \in SelfCallsT : d.func \in Range(error.names)

\* the array-kind variables that lie on a cycle
ArraysInCycles == {v \in arrays : InCycle(v)}

\* C6 as stated: a model with an array-kind variable on a cycle always ends with
\* the invalid-cycle error naming such a variable.
C6_ArrayInCycleAlwaysInvalid ==
    (Ended /\ ArraysInCycles # {}) =>
        /\ error.kind = "InvalidCycle"
        /\ error.names[1] \in ArraysInCycles

\* C6 as amended: a model with an array-kind variable on a cycle never returns a
\* list and no array-kind variable ever gets the cycle flag; a cycle with an
\* array-kind member never passes the array check, and the invalid-cycle error
\* names the first array-kind member of the cycle it was raised for (an error
\* raised for an earlier cycle of the pass comes first).
C6_ArrayInCycleNeverScheduled ==
    /\ pc = "returned" => ArraysInCycles = {}
    /\ \A v \in arrays : ~V[v].cycle
    /\ pc = "cycle_while" => Range(cycle) \cap arrays = {}
    /\ error.kind = "InvalidCycle" =>
          /\ pc = "raised"
          /\ result = <<>>
          /\ \E i \in 1..Len(cycle) :
                /\ error.names = <<cycle[i]>>
                /\ cycle[i] \in ArraysInCycles
                /\ \A j \in 1..(i - 1) : cycle[j] \notin arrays

\* C6 witness: the run ended with the invalid-cycle error for an array-kind
\* member of a cycle of several variables.
C6_Witness ==
    /\ pc = "raised"
    /\ error.kind = "InvalidCycle"
    /\ Len(cycle) > 1
    /\ error.names[1] \in arrays

\* C7: a second run on the same variables and dependencies ends as the first
\* one did: the same annotations and the same list.
C7_SecondRunAgrees ==
    (run = 2 /\ pc = "returned") => (V = first.V /\ result = first.result)

(***************************************************************************)
(* Formula inspection: syntax trees                                        *)
(***************************************************************************)
\* ast.Name(id) and ast.Constant(value)
Name(id) == [type |-> "Name", id |-> id, value |-> 0]
Constant(value) == [type |-> "Constant", id |-> "", value |-> value]

\* an expression that is no Name, Constant, BinOp or Compare (a call, a subscript)
OtherExpr == [type |-> "Call", id |-> "", value |-> 0]

Atoms == {Name("t"), Name("x"), Constant(1), Constant(2), OtherExpr}

\* ast.BinOp(left, op, right)
BinOp(left, op, right) == [type |-> "BinOp", left |-> left, op |-> op, right |-> right]

BinOps == {BinOp(l, o, r) : l \in Atoms, o \in {"Add", "Sub", "Mult"}, r \in Atoms}

\* the argument expressions of the inspected calls, e.g. g(t), g(x), g(5), g(t+1), g(x-1)
ArgExprs == Atoms \cup {Constant(5)} \cup BinOps

RECURSIVE ListsUpTo(_, _)
ListsUpTo(S, k) ==
    IF k = 0 THEN {<<>>}
    ELSE LET shorter == ListsUpTo(S, k - 1)
         IN  shorter \cup {Append(l, x) : l \in shorter, x \in S}

(***************************************************************************)
(* get_arg, binop_to_arg                                                   *)
(***************************************************************************)
\* binop_to_arg(node): binop is node.args[0]
binop_to_arg(binop) ==
    LET c1 == binop.left.type = "Name"
        c2 == binop.right.type = "Constant"
        c3 == binop.op = "Add"
        c4 == binop.op = "Sub"
    IN  IF c1 /\ c2 /\ c4 /\ binop.right.value = 1 THEN "t-1"
        ELSE IF c1 /\ c2 /\ c3 /\ binop.right.value = 1 THEN "t+1"
        ELSE "None"

\* get_arg(node, name): the value returned, or the ValueError raised
get_arg(call) ==
    IF Len(call.args) # 1 THEN "ValueError"
    ELSE IF call.args[1].type = "Name" THEN call.args[1].id
    ELSE IF call.args[1].type = "BinOp" THEN binop_to_arg(call.args[1])
    ELSE "None"

IdleScheduler ==
    /\ deps = {}
    /\ arrays = {}
    /\ dg = NoGraph
    /\ calc_order = 0
    /\ V = [v \in Names |-> NewVariable]
    /\ pending = <<>>
    /\ cycle = <<>>
    /\ dg_cycle = NoGraph
    /\ cycle_order = 0
    /\ together = [v \in Names |-> {}]
    /\ removed_at = [v \in Names |-> 0]
    /\ iters = 0
    /\ error = NoError
    /\ result = <<>>
    /\ run = 1
    /\ first = [V |-> V, result |-> <<>>]

\* a call of a model variable about to be classified
InitArg ==
    /\ IdleScheduler
    /\ pc = "get_arg"
    /\ node \in [func : {"g"}, args : ListsUpTo(ArgExprs, MaxArgs)]
    /\ arg = "unset"
    /\ ifs = <<>>
    /\ subset = "unset"
    /\ dependency = "unset"
    /\ DG = NoGraph

\* Visitor.visit_Call: arg = get_arg(node, ...)
GetArg ==
    /\ pc = "get_arg"
    /\ arg' = get_arg(node)
    /\ pc' = "got_arg"
    /\ UNCHANGED <<schedVars_but_pc, node, ifs, subset, dependency, DG>>

NextArg == GetArg

SpecArg == InitArg /\ [][NextArg]_vars

\* the classification the documentation gives for a single argument
ArgKindOf(e) ==
    IF e = Name("t") THEN "t"
    ELSE IF e = BinOp(Name("t"), "Add", Constant(1)) THEN "t+1"
    ELSE IF e = BinOp(Name("t"), "Sub", Constant(1)) THEN "t-1"
    ELSE "None"

\* C8: a call with other than one argument raises the malformed-call error; a
\* single argument is classified t, t+1, t-1 for exactly t, t + 1, t - 1 and none
\* for everything else.
C8_ArgClassification ==
    pc = "got_arg" =>
        IF Len(node.args) # 1 THEN arg = "ValueError"
        ELSE arg = ArgKindOf(node.args[1])

(***************************************************************************)
(* ifs_to_subset, if_to_subset                                             *)
(***************************************************************************)
\* ast.Compare(left, ops, comparators); ops and comparators have one length
Compare(left, ops, comparators) ==
    [type |-> "Compare", left |-> left, ops |-> ops, comparators |-> comparators]

\* a test that is no comparison: `a or b` (BoolOp), `flag` (Name), `not a`
\* (UnaryOp), `f(x)` (Call) have no attribute left; `t + 1` (BinOp) has one
NonCompare(type, left) ==
    [type |-> type, left |-> left, ops |-> <<>>, comparators |-> <<>>]

CompareOps == {"Eq", "NotEq", "Lt", "LtE", "Gt", "GtE"}

\* the literals a guard compares t with: some beyond T_MAX_CALCULATION
GuardConstants == 0..(T_MAX_CALCULATION + 2)

\* the tests of the shape `t <op> constant`
GuardTests ==
    {Compare(Name("t"), <<op>>, <<Constant(c)>>) : op \in CompareOps, c \in GuardConstants}

\* tests of any other shape
OtherTests ==
    {Compare(Name("t"), <<op>>, <<OtherExpr>>) : op \in CompareOps}
    \cup {Compare(Name("t"), <<op>>, <<Name("x")>>) : op \in {"Eq", "Lt"}}
    \cup {Compare(Name("x"), <<op>>, <<Constant(1)>>) : op \in {"Eq", "Lt"}}
    \cup {Compare(Constant(1), <<op>>, <<Name("t")>>) : op \in {"Eq", "Lt"}}
    \cup {Compare(OtherExpr, <<"Eq">>, <<Constant(1)>>)}
    \cup {Compare(Name("t"), <<"Is">>, <<Constant(1)>>)}
    \cup {Compare(Name("t"), <<"Lt", "Lt">>, <<Constant(1), Constant(2)>>)}
    \cup {Compare(Constant(0), <<"Lt", "Lt">>, <<Name("t"), Constant(2)>>)}
    \cup {NonCompare(type, OtherExpr) : type \in {"BoolOp", "Name", "UnaryOp", "Call"}}
    \cup {NonCompare("BinOp", left) : left \in {Name("t"), Name("x"), Constant(1)}}

\* ast.If(test)
IfNodes == {[test |-> test] : test \in GuardTests \cup OtherTests}

\* range(lo, hi)
range(lo, hi) == {i \in lo..(hi - 1) : TRUE}

Returned(value) == [raised |-> "none", value |-> value]
Raised(exception) == [raised |-> exception, value |-> {}]

\* the node types with an attribute left, and with an attribute comparators
HasLeft(test) == test.type \in {"Compare", "BinOp"}
HasComparators(test) == test.type = "Compare"

\* if_to_subset(_if, T_MAX)
if_to_subset(_if, T_MAX) ==
    LET full == range(0, T_MAX)
        test == _if.test
    IN  IF ~HasLeft(test) THEN Raised("AttributeError")
        ELSE IF test.left.type # "Name" THEN Returned(full)
        ELSE IF ~HasComparators(test) THEN Raised("AttributeError")
        ELSE
            LET c1 == test.left.id = "t"
                c2 == Len(test.comparators) = 1
                c3 == Len(test.ops) = 1
            IN  IF c1 /\ c2 /\ c3 /\ test.comparators[1].type = "Constant"
                THEN LET value == test.comparators[1].value
                         op == test.ops[1]
                     IN  Returned(
                           CASE op = "Eq"    -> {value}
                             [] op = "NotEq" -> range(0, value) \cup range(value + 1, T_MAX)
                             [] op = "Lt"    -> range(0, value)
                             [] op = "LtE"   -> range(0, value + 1)
                             [] op = "Gt"    -> range(value + 1, T_MAX)
                             [] op = "GtE"   -> range(value, T_MAX)
                             [] OTHER        -> full)
                ELSE Returned(full)

\* the for loop of ifs_to_subset from index idx on, with the subset so far
RECURSIVE IfsLoop(_, _, _, _)
IfsLoop(list, idx, T_MAX, soFar) ==
    IF idx > Len(list) THEN Returned(soFar)
    ELSE LET one == if_to_subset(list[idx], T_MAX)
         IN  IF one.raised # "none" THEN one
             ELSE IfsLoop(list, idx + 1, T_MAX,
                          IF idx = 1 THEN one.value ELSE soFar \cap one.value)

\* ifs_to_subset(ifs, settings)
ifs_to_subset(list, setting) ==
    LET T_MAX == setting + 1
    IN  IfsLoop(list, 1, T_MAX, range(0, T_MAX))

\* the ast.If nodes get_parent_ifs found around a call, innermost first
InitIf ==
    /\ IdleScheduler
    /\ pc = "ifs_to_subset"
    /\ ifs \in ListsUpTo(IfNodes, MaxIfs)
    /\ subset = "unset"
    /\ node = <<>>
    /\ arg = "unset"
    /\ dependency = "unset"
    /\ DG = NoGraph

\* Visitor.visit_Call: subset = ifs_to_subset(ifs, self.settings)
IfsToSubset ==
    /\ pc = "ifs_to_subset"
    /\ subset' = ifs_to_subset(ifs, T_MAX_CALCULATION)
    /\ pc' = "got_subset"
    /\ UNCHANGED <<schedVars_but_pc, node, arg, ifs, dependency, DG>>

NextIf == IfsToSubset

SpecIf == InitIf /\ [][NextIf]_vars

AllPeriods == 0..T_MAX_CALCULATION

\* the periods a guard `t <op> c` admits, as documented
Admitted(test) ==
    LET c == test.comparators[1].value
        op == test.ops[1]
    IN  CASE op = "Eq"    -> {c}
          [] op = "NotEq" -> AllPeriods \ {c}
          [] op = "Lt"    -> 0..(c - 1)
          [] op = "LtE"   -> 0..c
          [] op = "Gt"    -> (c + 1)..T_MAX_CALCULATION
          [] op = "GtE"   -> c..T_MAX_CALCULATION

RECURSIVE AdmittedByAll(_, _)
AdmittedByAll(list, idx) ==
    IF idx > Len(list) THEN AllPeriods
    ELSE IF idx = Len(list) THEN Admitted(list[idx].test)
    ELSE Admitted(list[idx].test) \cap AdmittedByAll(list, idx + 1)

\* C9: around guards of the shape `t <op> c` only, the subset is the
\* intersection of the sets the guards admit, and all periods with no guard.
C9_SubsetIsIntersectionOfGuards ==
    (pc = "got_subset" /\ \A i \in 1..Len(ifs) : ifs[i].test \in GuardTests) =>
        subset = Returned(AdmittedByAll(ifs, 1))

\* C10: an enclosing if whose test is not of the shape `t <op> c` restricts
\* nothing: if_to_subset returns all periods for it and the analysis raises no
\* error.
C10_OtherTestsAdmitAll ==
    pc = "got_subset" =>
        \A i \in 1..Len(ifs) :
            ifs[i].test \in OtherTests =>
                /\ if_to_subset(ifs[i], T_MAX_CALCULATION + 1) = Returned(AllPeriods)
                /\ subset.raised = "none"
\* C11: the subset of every Dependency lies within 0..T_MAX_CALCULATION, whatever
\* the operators and constants of the enclosing guards.
C11_SubsetWithinPeriods ==
    (pc = "got_subset" /\ subset.raised = "none") => subset.value \subseteq AllPeriods
IsTermLife == deps = TermLife /\ arrays = {}

\* C12: on the term-life tutorial model scheduling succeeds, survival_rate is
\* ordered before expected_benefit and that before net_single_premium,
\* survival_rate is a forward cycle, expected_benefit is not a cycle and
\* net_single_premium is a backward cycle.
C12_TermLifeSchedule ==
    IsTermLife =>
        /\ pc # "raised"
        /\ pc = "returned" =>
              /\ V[survival_rate].calc_order < V[expected_benefit].calc_order
              /\ V[expected_benefit].calc_order < V[net_single_premium].calc_order
              /\ V[survival_rate].cycle
              /\ V[survival_rate].calc_direction = "forward"
              /\ ~V[expected_benefit].cycle
              /\ V[net_single_premium].cycle
              /\ V[net_single_premium].calc_direction = "backward"
              /\ result = <<survival_rate, expected_benefit, net_single_premium>>

\* C12 witness: the tutorial model scheduled to the end, in three iterations.
C12_Witness ==
    /\ IsTermLife
    /\ pc = "returned"
    /\ iters = 3
    /\ V[net_single_premium].calc_order = 3
(***************************************************************************)
(* The (variable, period) graph: add_edges_from_dependency.                *)
(***************************************************************************)
\* what Visitor.visit_Call stores as the arg of a Dependency
EdgeArgKinds == ArgKinds \cup {"None"}

\* the subsets ifs_to_subset hands over: periods up to one past the last one
EdgeSubsets == SUBSET (0..(T_MAX_CALCULATION + 1))

\* DG.add_edge(u, v) for every <<u, v>> of edges
add_edges(G, edges) ==
    [nodes |-> G.nodes \cup {e[1] : e \in edges} \cup {e[2] : e \in edges},
     edges |-> G.edges \cup edges]

add_edges_from_dependency(d, G, T_MAX) ==
    LET same == IF d.arg = "t"
                THEN {<<<<d.call, period>>, <<d.func, period>>>> : period \in d.subset}
                ELSE {}
        previous == IF d.arg = "t-1"
                    THEN {<<<<d.call, period - 1>>, <<d.func, period>>>> :
                             period \in {q \in d.subset : q - 1 >= 0}}
                    ELSE {}
        next == IF d.arg = "t+1"
                THEN {<<<<d.call, period + 1>>, <<d.func, period>>>> :
                         period \in {q \in d.subset : q + 1 <= T_MAX}}
                ELSE {}
        every == IF d.arg = "None"
                 THEN {<<<<d.call, period_1>>, <<d.func, period_2>>>> :
                          period_1 \in range(0, T_MAX), period_2 \in range(0, T_MAX)}
                 ELSE {}
    IN  add_edges(add_edges(add_edges(add_edges(G, same), previous), next), every)

\* a Dependency about to be expanded into an empty graph
InitEdges ==
    /\ IdleScheduler
    /\ pc = "add_edges"
    /\ node = <<>>
    /\ arg = "unset"
    /\ ifs = <<>>
    /\ subset = "unset"
    /\ dependency \in [func : Names, call : Names, arg : EdgeArgKinds, subset : EdgeSubsets]
    /\ DG = NoGraph

\* add_edges_from_dependency(dependency, DG, T_MAX), T_MAX the last period
AddEdges ==
    /\ pc = "add_edges"
    /\ DG' = add_edges_from_dependency(dependency, DG, T_MAX_CALCULATION)
    /\ pc' = "added_edges"
    /\ UNCHANGED <<schedVars_but_pc, node, arg, ifs, subset, dependency>>

NextEdges == AddEdges

SpecEdges == InitEdges /\ [][NextEdges]_vars

\* the period of the callee a t, t-1 or t+1 call made at period p reads
SourcePeriod(kind, p) ==
    CASE kind = "t"   -> p
      [] kind = "t-1" -> p - 1
      [] kind = "t+1" -> p + 1

\* the edges the documentation gives for a Dependency
DocumentedEdges(d) ==
    IF d.arg = "None"
    THEN {<<<<d.call, p1>>, <<d.func, p2>>>> : p1 \in AllPeriods, p2 \in AllPeriods}
    ELSE {<<<<d.call, SourcePeriod(d.arg, p)>>, <<d.func, p>>>> :
             p \in {q \in d.subset : SourcePeriod(d.arg, q) \in AllPeriods}}

\* C13: an unclassified Dependency gives an edge from the callee at every period of
\* 0..T_MAX to the caller at every period of 0..T_MAX; a t, t-1 or t+1 Dependency
\* gives, for each period p of its subset, the edge from the callee at p, p-1 or
\* p+1 to the caller at p, unless that source period is outside 0..T_MAX.
C13_EdgesOfDependency ==
    pc = "added_edges" => DG.edges = DocumentedEdges(dependency)
====
